---- MODULE Spec2Model ----
(***************************************************************************)
(* Eigenface pipeline of arnold-or-barack.py: data-matrix construction,   *)
(* PCA model building, projection / reconstruction / MSE, the accuracy    *)
(* count of main, and the face-detection loop.                            *)
(*                                                                         *)
(* Matrices are sequences of rows; numpy's 0-based index j is the TLA+    *)
(* index j+1.  Pixel values, model means and eigenvector entries are      *)
(* integers; a numpy mean is kept exact as a fraction [num, den].         *)
(***************************************************************************)
EXTENDS Integers, Sequences, FiniteSets, TLC

VARIABLES
    pc,          \* which call is in progress / finished
    images,      \* the faces folder: identifier -> grayscale image, or NoImage
    roi_size,    \* <<roi_size[0], roi_size[1]>>
    numbers,     \* ordered identifier list of the call
    X,           \* data matrix of the call
    outcome,     \* "none", "returned", or the name of the exception raised
    eig_out,     \* what np.linalg.eig returned: [vals, vecs]
    k_arg,       \* number_of_components passed to pca
    model,       \* [mean, eigenvalues, eigenvectors] returned by pca
    models,      \* model list handed to test_images
    results,     \* list of [reconstructions, mse] built by test_images
    mse_arnold,  \* results_arnold[m][1] for m = 0, 1
    mse_barack,  \* results_barack[m][1] for m = 0, 1
    correct,     \* main's counters
    total,
    detections,  \* per source image, the boxes detectMultiScale returns
    saved        \* faces written by detect_and_save_faces: <<image index, box>>

vars == <<pc, images, roi_size, numbers, X, outcome, eig_out, k_arg, model,
          models, results, mse_arnold, mse_barack, correct, total,
          detections, saved>>

-----------------------------------------------------------------------------
(* Bounds of the model *)

MaxPix == 1        \* pixel intensities are 0..MaxPix
MaxN == 2          \* longest identifier list
MaxRows == 2       \* tallest stored image
MaxCols == 2       \* widest stored image

-----------------------------------------------------------------------------
(* Generic helpers *)

Min(a, b) == IF a < b THEN a ELSE b

Abs(a) == IF a < 0 THEN -a ELSE a

RECURSIVE SumSeq(_)
SumSeq(s) == IF s = <<>> THEN 0 ELSE Head(s) + SumSeq(Tail(s))

Zeros(n) == [j \in 1..n |-> 0]

SeqsUpTo(S, n) == UNION {[1..m -> S] : m \in 0..n}

\* cv2.imread returns None for a file that is missing or unreadable
NoImage == [rows |-> 0, cols |-> 0, pix |-> <<>>]

Pixels == 0..MaxPix

\* the h-by-w images with at most one non-zero pixel
ImagesOfShape(h, w) ==
    {[rows |-> h, cols |-> w,
      pix |-> [r \in 1..h |-> [c \in 1..w |->
                 IF r = r0 /\ c = c0 THEN v ELSE 0]]] :
        r0 \in 1..h, c0 \in 1..w, v \in Pixels}

Ids == {1, 2}

-----------------------------------------------------------------------------
(* construct_data_matrix *)

\* variant: the slice starts at row_num instead of row_num*num_cols
AssignRow_ByRowIndex(xrow, img, row_num) ==
    LET P == Len(xrow)
        lo == Min(row_num, P)
        hi == Min(row_num + img.cols, P)
    IN  IF hi - lo = img.cols
        THEN [ok |-> TRUE,
              row |-> [j \in 1..P |->
                         IF j > lo /\ j <= hi
                         THEN img.pix[row_num + 1][j - lo]
                         ELSE xrow[j]]]
        ELSE [ok |-> FALSE, row |-> xrow]

\* X[i][(row_num*num_cols):(row_num+1)*num_cols] = gray_img[row_num]
\* numpy clips the slice to the row length P; the assignment needs the
\* value to broadcast to the clipped slice, else ValueError.
AssignRow(xrow, img, row_num) ==
    LET P == Len(xrow)
        lo == Min(row_num * img.cols, P)
        hi == Min((row_num + 1) * img.cols, P)
    IN  IF hi - lo = img.cols
        THEN [ok |-> TRUE,
              row |-> [j \in 1..P |->
                         IF j > lo /\ j <= hi
                         THEN img.pix[row_num + 1][j - lo]
                         ELSE xrow[j]]]
        ELSE IF img.cols = 1
        THEN [ok |-> TRUE,
              row |-> [j \in 1..P |->
                         IF j > lo /\ j <= hi
                         THEN img.pix[row_num + 1][1]
                         ELSE xrow[j]]]
        ELSE [ok |-> FALSE, row |-> xrow]

\* for row_num in range(num_rows): ...
RECURSIVE FillRow(_, _, _)
FillRow(xrow, img, row_num) ==
    IF row_num >= img.rows THEN [ok |-> TRUE, row |-> xrow]
    ELSE LET a == AssignRow(xrow, img, row_num)
         IN  IF a.ok THEN FillRow(a.row, img, row_num + 1) ELSE a

\* for i in range(N): imread, cvtColor, fill row i
RECURSIVE FillMatrix(_, _, _, _)
FillMatrix(imgs, nums, P, i) ==
    IF i > Len(nums) THEN [status |-> "returned", X |-> <<>>]
    ELSE IF imgs[nums[i]] = NoImage THEN [status |-> "cv2.error", X |-> <<>>]
    ELSE LET f == FillRow(Zeros(P), imgs[nums[i]], 0)
         IN  IF ~f.ok THEN [status |-> "ValueError", X |-> <<>>]
             ELSE LET rest == FillMatrix(imgs, nums, P, i + 1)
                  IN  IF rest.status # "returned" THEN rest
                      ELSE [status |-> "returned", X |-> <<f.row>> \o rest.X]

construct_data_matrix(imgs, roi, nums) ==
    FillMatrix(imgs, nums, roi[1] * roi[2], 1)

-----------------------------------------------------------------------------
(* Specification of construct_data_matrix: any faces folder, roi and list *)

AllImages == UNION {ImagesOfShape(h, w) : h \in 1..MaxRows, w \in 1..MaxCols}

Rois == (1..MaxCols) \X (1..MaxRows)

NoModel == [mean |-> <<>>, eigenvalues |-> <<>>, eigenvectors |-> <<>>]

NoEig == [vals |-> <<>>, vecs |-> <<>>]

\* variables a specification does not use stay at these values
IdlePca == /\ eig_out = NoEig /\ k_arg = 0 /\ model = NoModel

IdleTest == /\ models = <<>> /\ results = <<>>

IdleMain == /\ mse_arnold = <<>> /\ mse_barack = <<>>
            /\ correct = 0 /\ total = 0

IdleDetect == /\ detections = <<>> /\ saved = <<>>

InitMatrix ==
    /\ pc = "construct_data_matrix"
    /\ images \in [Ids -> AllImages \cup {NoImage}]
    /\ roi_size \in Rois
    /\ numbers \in SeqsUpTo(Ids, MaxN)
    /\ X = <<>>
    /\ outcome = "none"
    /\ IdlePca /\ IdleTest /\ IdleMain /\ IdleDetect

ConstructDataMatrix ==
    /\ pc = "construct_data_matrix"
    /\ LET r == construct_data_matrix(images, roi_size, numbers)
       IN  /\ X' = r.X
           /\ outcome' = r.status
    /\ pc' = "done"
    /\ UNCHANGED <<images, roi_size, numbers, eig_out, k_arg, model, models,
                   results, mse_arnold, mse_barack, correct, total,
                   detections, saved>>

NextMatrix == ConstructDataMatrix

SpecMatrix == InitMatrix /\ [][NextMatrix]_vars

\* every referenced image exists and is H rows by W columns, roi = (W, H)
AllSamplesFit ==
    \A i \in 1..Len(numbers) :
        /\ images[numbers[i]] # NoImage
        /\ images[numbers[i]].rows = roi_size[2]
        /\ images[numbers[i]].cols = roi_size[1]

\* C1: for H-by-W images the result is an N-by-(W*H) matrix whose row i is
\* the image of the i-th identifier flattened in row-major order:
\* X[i][r*W + c] = pixel (r, c).
C1_RowMajorFlattening ==
    (pc = "done" /\ AllSamplesFit) =>
        /\ outcome = "returned"
        /\ Len(X) = Len(numbers)
        /\ \A i \in 1..Len(numbers) :
              /\ Len(X[i]) = roi_size[1] * roi_size[2]
              /\ \A r \in 1..roi_size[2] : \A c \in 1..roi_size[1] :
                    X[i][(r - 1) * roi_size[1] + c]
                        = images[numbers[i]].pix[r][c]

C1_Witness ==
    /\ pc = "done" /\ AllSamplesFit /\ outcome = "returned"
    /\ Len(numbers) = 2 /\ numbers[1] # numbers[2]
    /\ roi_size = <<2, 2>>
    /\ X[1] # X[2]
    /\ X[1][2] # X[1][3]

\* some referenced image exists but is not H rows by W columns
SomeSampleMisfit ==
    \E i \in 1..Len(numbers) :
        /\ images[numbers[i]] # NoImage
        /\ \/ images[numbers[i]].rows # roi_size[2]
           \/ images[numbers[i]].cols # roi_size[1]

\* C8: an image whose dimensions differ from (H, W) makes the call fail
\* with DimensionMismatchError, and no partly filled matrix is returned.
C8_DimensionMismatchRaised ==
    (/\ pc = "done"
     /\ SomeSampleMisfit
     /\ \A i \in 1..Len(numbers) : images[numbers[i]] # NoImage)
        => outcome = "DimensionMismatchError"

-----------------------------------------------------------------------------
(* pca and do_pca_and_build_model *)
(* Float scalars of this part (column means, eigenvalue magnitudes) are    *)
(* fractions <<num, den>>.  np.linalg.eig is the library's: its result is  *)
(* any P eigenvalues with a P-by-P matrix of eigenvector columns.          *)

MaxEig == 1        \* solver eigenvalues are -MaxEig..MaxEig
MaxK == 3          \* largest number_of_components of a direct pca call

number_of_components == 5

Frac(n, d) == <<n, d>>

Column(M, c) == [r \in 1..Len(M) |-> M[r][c]]

Transpose(M, ncols) == [r \in 1..ncols |-> Column(M, r)]

\* mean = np.mean(X, axis=0)
ColumnMean(Xm, P) ==
    [j \in 1..P |-> Frac(SumSeq([i \in 1..Len(Xm) |-> Xm[i][j]]), Len(Xm))]

\* np.cov of fewer than two observations is all NaN, of a single variable
\* is 0-dimensional: np.linalg.eig raises LinAlgError on either
EigRaises(N, P) == N <= 1 \/ P = 1

\* [(mean[i], np.abs(eigenvalues[i]), eigenvectors[:, i]) for i in range(P)]
PcaComponents(mean, eig) ==
    [i \in 1..Len(eig.vals) |->
        <<mean[i], Frac(Abs(eig.vals[i]), 1), Column(eig.vecs, i)>>]

\* variant: a component goes before the components of equal key
InsertDescending_TiesReversed(sorted, x) ==
    LET n == Cardinality({j \in 1..Len(sorted) : sorted[j][2][1] > x[2][1]})
    IN  SubSeq(sorted, 1, n) \o <<x>> \o SubSeq(sorted, n + 1, Len(sorted))

\* a component goes after every component whose key is at least its own
InsertDescending(sorted, x) ==
    LET n == Cardinality({j \in 1..Len(sorted) : sorted[j][2][1] >= x[2][1]})
    IN  SubSeq(sorted, 1, n) \o <<x>> \o SubSeq(sorted, n + 1, Len(sorted))

\* sorted(pca_components, key=lambda x: x[1], reverse=True): stable
RECURSIVE SortedDescending(_)
SortedDescending(comps) ==
    IF comps = <<>> THEN <<>>
    ELSE InsertDescending(SortedDescending(SubSeq(comps, 1, Len(comps) - 1)),
                          comps[Len(comps)])

\* pca_components[0:number_of_components]
Retained(comps, k) == SubSeq(comps, 1, Min(k, Len(comps)))

\* eigenvectors = np.zeros((k, P)); eigenvectors[i] = pca_components[i][2]
EigenvectorRows(comps, k, P) ==
    [i \in 1..k |-> IF i <= Len(comps) THEN comps[i][3] ELSE Zeros(P)]

pca(Xm, P, k, eig) ==
    LET mean == ColumnMean(Xm, P)
        comps == Retained(SortedDescending(PcaComponents(mean, eig)), k)
    IN  IF EigRaises(Len(Xm), P)
        THEN [status |-> "LinAlgError", model |-> NoModel]
        ELSE IF Len(comps) < 2
        THEN [status |-> "IndexError", model |-> NoModel]
        ELSE [status |-> "returned",
              model |-> [mean |-> mean,
                         \* eigenvalues = pca_components[:][1]
                         eigenvalues |-> comps[2],
                         eigenvectors |->
                             Transpose(EigenvectorRows(comps, k, P), P)]]

-----------------------------------------------------------------------------
(* Specification of pca: a direct call pca(X, k), or the training call    *)
(* do_pca_and_build_model over a faces folder of roi-sized crops.         *)

EigVals == (-MaxEig)..MaxEig

Identity(P) == [r \in 1..P |-> [c \in 1..P |-> IF r = c THEN 1 ELSE 0]]

NegReverse(P) ==
    [r \in 1..P |-> [c \in 1..P |-> IF r + c = P + 1 THEN -1 ELSE 0]]

\* results the eigensolver may return for a P-by-P matrix
EigResults(P) ==
    {[vals |-> v, vecs |-> b] :
        v \in [1..P -> EigVals], b \in {Identity(P), NegReverse(P)}}

PcaShapes == {<<2, 1>>, <<3, 1>>}

TrainRois == {<<2, 2>>, <<5, 1>>}

\* rows of a data matrix handed to pca directly: a flat one and a ramp
SampleRows(P) == {Zeros(P), [j \in 1..P |-> j % (MaxPix + 1)]}

\* roi-sized crops: a flat one and a ramp
FlatImage(roi) ==
    [rows |-> roi[2], cols |-> roi[1],
     pix |-> [r \in 1..roi[2] |-> [c \in 1..roi[1] |-> 0]]]

RampImage(roi) ==
    [rows |-> roi[2], cols |-> roi[1],
     pix |-> [r \in 1..roi[2] |->
                [c \in 1..roi[1] |-> ((r - 1) * roi[1] + c) % (MaxPix + 1)]]]

\* the ramp counted down from MaxPix
ReverseRampImage(roi) ==
    [rows |-> roi[2], cols |-> roi[1],
     pix |-> [r \in 1..roi[2] |->
                [c \in 1..roi[1] |->
                    MaxPix - (((r - 1) * roi[1] + c) % (MaxPix + 1))]]]

InitPca ==
    /\ \/ /\ pc = "pca"
          /\ roi_size \in PcaShapes
          /\ X \in SeqsUpTo(SampleRows(roi_size[1] * roi_size[2]), MaxN)
          /\ k_arg \in 1..MaxK
          /\ images = [n \in Ids |-> NoImage]
          /\ numbers = <<>>
       \/ /\ pc = "do_pca_and_build_model"
          /\ roi_size \in TrainRois
          /\ images \in [Ids -> {FlatImage(roi_size), RampImage(roi_size)}]
          /\ numbers \in SeqsUpTo(Ids, MaxN)
          /\ X = <<>>
          /\ k_arg = 0
    /\ outcome = "none"
    /\ eig_out = NoEig
    /\ model = NoModel
    /\ IdleTest /\ IdleMain /\ IdleDetect

\* the body of pca on data matrix Xm with P columns
PcaBody(Xm, P, k) ==
    IF EigRaises(Len(Xm), P)
    THEN /\ eig_out' = NoEig
         /\ outcome' = "LinAlgError"
         /\ model' = NoModel
    ELSE \E eig \in EigResults(P) :
            LET r == pca(Xm, P, k, eig)
            IN  /\ eig_out' = eig
                /\ outcome' = r.status
                /\ model' = r.model

Pca ==
    /\ pc = "pca"
    /\ PcaBody(X, roi_size[1] * roi_size[2], k_arg)
    /\ pc' = "done"
    /\ UNCHANGED <<images, roi_size, numbers, X, k_arg, models, results,
                   mse_arnold, mse_barack, correct, total, detections, saved>>

DoPcaAndBuildModel ==
    /\ pc = "do_pca_and_build_model"
    /\ LET r == construct_data_matrix(images, roi_size, numbers)
       IN  /\ X' = r.X
           /\ IF r.status # "returned"
              THEN /\ outcome' = r.status
                   /\ UNCHANGED <<eig_out, model, k_arg>>
              ELSE /\ k_arg' = number_of_components
                   /\ PcaBody(r.X, roi_size[1] * roi_size[2],
                              number_of_components)
    /\ pc' = "done"
    /\ UNCHANGED <<images, roi_size, numbers, models, results,
                   mse_arnold, mse_barack, correct, total, detections, saved>>

NextPca == Pca \/ DoPcaAndBuildModel

SpecPca == InitPca /\ [][NextPca]_vars

\* position of solver index i when the pairs are ordered by descending
\* magnitude, equal magnitudes by ascending solver index
Rank(i) ==
    1 + Cardinality({j \in 1..Len(eig_out.vals) :
            \/ Abs(eig_out.vals[j]) > Abs(eig_out.vals[i])
            \/ Abs(eig_out.vals[j]) = Abs(eig_out.vals[i]) /\ j < i})

PcaReturned == pc = "done" /\ outcome = "returned" /\ eig_out # NoEig

\* C2: the retained eigenvector columns are in descending order of absolute
\* eigenvalue, equal magnitudes in ascending solver index, and they are the
\* first k pairs of that order.
C2_ColumnsByDescendingMagnitude ==
    PcaReturned =>
        \A i \in 1..Len(eig_out.vals) :
            Rank(i) <= k_arg =>
                Column(model.eigenvectors, Rank(i)) = Column(eig_out.vecs, i)

C2_Witness ==
    /\ PcaReturned
    /\ k_arg < Len(eig_out.vals)
    /\ \E i, j \in 1..Len(eig_out.vals) :
          /\ i < j /\ Rank(j) <= k_arg
          /\ eig_out.vals[i] = -eig_out.vals[j] /\ eig_out.vals[i] # 0
    /\ \E i, j \in 1..Len(eig_out.vals) :
          i < j /\ Rank(j) < Rank(i) /\ Rank(j) <= k_arg /\ Rank(i) > k_arg

\* C3: eigenvalues has length k and eigenvalues[i] is the magnitude paired
\* with the eigenvector in column i.
C3_EigenvaluesAlignedWithColumns ==
    PcaReturned =>
        /\ Len(model.eigenvalues) = k_arg
        /\ \A i \in 1..Len(eig_out.vals) :
              Rank(i) <= k_arg =>
                  model.eigenvalues[Rank(i)] = Frac(Abs(eig_out.vals[i]), 1)

\* C6: a component count above the number of samples raises
\* InvalidComponentCountError before the eigen-decomposition, and no model
\* is returned.
C6_InvalidComponentCountRaised ==
    (pc = "done" /\ k_arg > Len(X)) =>
        /\ outcome = "InvalidComponentCountError"
        /\ eig_out = NoEig
        /\ model = NoModel

-----------------------------------------------------------------------------
(* test_images and project_and_reconstruct *)
(* Models here have an integral mean and integral eigenvector entries, so  *)
(* every product is exact; an MSE is the fraction <<sum of squares, P>>.   *)

ModelCount == 2    \* main passes [model_arnold, model_barack]

\* X_ms - model[0]: the mean is broadcast over the rows
SubtractRow(Xm, mean) ==
    [i \in 1..Len(Xm) |-> [j \in 1..Len(mean) |-> Xm[i][j] - mean[j]]]

\* np.dot(A, B) for B with ncols columns
Dot(A, B, ncols) ==
    [i \in 1..Len(A) |->
        [c \in 1..ncols |->
            SumSeq([q \in 1..Len(B) |-> A[i][q] * B[q][c]])]]

\* variant: the mean is not added back to the reconstruction
project_and_reconstruct_NoMean(Xm, m) ==
    LET V == m.eigenvectors
        k == Len(V[1])
        projections == Dot(Xm, V, k)
    IN  [projections |-> projections,
         reconstructions |-> Dot(projections, Transpose(V, k), Len(V))]

project_and_reconstruct(Xm, m) ==
    LET V == m.eigenvectors
        k == Len(V[1])
        projections == Dot(Xm, V, k)
        product == Dot(projections, Transpose(V, k), Len(V))
    IN  [projections |-> projections,
         reconstructions |->
            [i \in 1..Len(product) |->
                [j \in 1..Len(V) |-> product[i][j] + m.mean[j]]]]

\* np.mean((A - B) ** 2, axis=1)
MeanSquaredError(A, B, P) ==
    [i \in 1..Len(A) |->
        Frac(SumSeq([j \in 1..P |-> (A[i][j] - B[i][j]) * (A[i][j] - B[i][j])]),
             P)]

\* variant: the centering is done in place, so X itself is centered
TestOneModel_InPlace(Xm, m) ==
    LET X_ms == SubtractRow(Xm, m.mean)
        pr == project_and_reconstruct(X_ms, m)
    IN  [X |-> X_ms,
         reconstructions |-> pr.reconstructions,
         mse |-> MeanSquaredError(X_ms, pr.reconstructions, Len(m.mean))]

\* variant: the error is taken against the mean-centered copy
TestOneModel_CenteredTruth(Xm, m) ==
    LET X_ms == SubtractRow(Xm, m.mean)
        pr == project_and_reconstruct(X_ms, m)
    IN  [X |-> Xm,
         reconstructions |-> pr.reconstructions,
         mse |-> MeanSquaredError(X_ms, pr.reconstructions, Len(m.mean))]

\* one iteration of "for model in models"; X_ms = X - model[0] is a new
\* array, X keeps its value
TestOneModel(Xm, m) ==
    LET X_ms == SubtractRow(Xm, m.mean)
        pr == project_and_reconstruct(X_ms, m)
    IN  [X |-> Xm,
         reconstructions |-> pr.reconstructions,
         mse |-> MeanSquaredError(Xm, pr.reconstructions, Len(m.mean))]

-----------------------------------------------------------------------------
(* Specification of test_images: roi-sized crops against two models *)

TestRois == {<<2, 1>>}

UnitColumn(P, q, sign) == [r \in 1..P |-> IF r = q THEN sign ELSE 0]

\* eigenvector columns: unit vectors, one of them negated, and a non-unit one
ColumnChoices(P) ==
    {UnitColumn(P, q, 1) : q \in 2..P}
        \cup {UnitColumn(P, 1, -1), [r \in 1..P |-> 1]}

\* P-by-k matrices, 1 <= k <= P, with columns among the choices
EigenMatrices(P) ==
    UNION {{Transpose(cols, P) : cols \in [1..k -> ColumnChoices(P)]} :
              k \in 1..P}

TestModels(P) ==
    {[mean |-> [j \in 1..P |-> v], eigenvalues |-> <<>>, eigenvectors |-> V] :
        v \in Pixels, V \in EigenMatrices(P)}

InitTest ==
    /\ pc = "test_images"
    /\ roi_size \in TestRois
    /\ images \in {[n \in Ids |-> IF n = 1 THEN first ELSE RampImage(roi_size)] :
                      first \in {FlatImage(roi_size),
                                  ReverseRampImage(roi_size)}}
    /\ numbers \in SeqsUpTo(Ids, MaxN)
    /\ models \in [1..ModelCount -> TestModels(roi_size[1] * roi_size[2])]
    /\ X = <<>>
    /\ results = <<>>
    /\ outcome = "none"
    /\ IdlePca /\ IdleMain /\ IdleDetect

\* X = construct_data_matrix(name, roi_size, numbers); results = []
TestImagesStart ==
    /\ pc = "test_images"
    /\ LET r == construct_data_matrix(images, roi_size, numbers)
       IN  /\ X' = r.X
           /\ IF r.status = "returned"
              THEN pc' = "test_loop" /\ UNCHANGED outcome
              ELSE pc' = "done" /\ outcome' = r.status
    /\ UNCHANGED <<images, roi_size, numbers, eig_out, k_arg, model, models,
                   results, mse_arnold, mse_barack, correct, total,
                   detections, saved>>

\* the loop body for the next model of the list
TestImagesStep ==
    /\ pc = "test_loop"
    /\ Len(results) < Len(models)
    /\ LET t == TestOneModel(X, models[Len(results) + 1])
       IN  /\ X' = t.X
           /\ results' = Append(results, [reconstructions |-> t.reconstructions,
                                          mse |-> t.mse])
    /\ UNCHANGED <<pc, images, roi_size, numbers, outcome, eig_out, k_arg,
                   model, models, mse_arnold, mse_barack, correct, total,
                   detections, saved>>

\* return results
TestImagesReturn ==
    /\ pc = "test_loop"
    /\ Len(results) = Len(models)
    /\ pc' = "done"
    /\ outcome' = "returned"
    /\ UNCHANGED <<images, roi_size, numbers, X, eig_out, k_arg, model, models,
                   results, mse_arnold, mse_barack, correct, total,
                   detections, saved>>

NextTest == TestImagesStart \/ TestImagesStep \/ TestImagesReturn

SpecTest == InitTest /\ [][NextTest]_vars

\* the i-th test sample as stored: pixel (r, c) of the crop at r*W + c
Sample(i) ==
    [q \in 1..(roi_size[1] * roi_size[2]) |->
        images[numbers[i]].pix[((q - 1) \div roi_size[1]) + 1]
                              [((q - 1) % roi_size[1]) + 1]]

NumComponents(m) == Len(m.eigenvectors[1])

\* ((x - mean) * V)[c]
ExpectedProjection(x, m, c) ==
    SumSeq([q \in 1..Len(x) |-> (x[q] - m.mean[q]) * m.eigenvectors[q][c]])

\* (((x - mean) * V) * V^T + mean)[q]
ExpectedReconstruction(x, m) ==
    [q \in 1..Len(x) |->
        SumSeq([c \in 1..NumComponents(m) |->
                   ExpectedProjection(x, m, c) * m.eigenvectors[q][c]])
            + m.mean[q]]

\* mean over pixels of (x - reconstruction)^2
ExpectedMse(x, m) ==
    LET rec == ExpectedReconstruction(x, m)
    IN  Frac(SumSeq([q \in 1..Len(x) |-> (x[q] - rec[q]) * (x[q] - rec[q])]),
             Len(x))

InTestLoop == pc \in {"test_loop", "done"} /\ outcome \in {"none", "returned"}

\* C4: for every model, reconstruction[i] = ((X[i] - mean) V) V^T + mean and
\* MSE[i] is the mean over pixels of (X[i] - reconstruction[i])^2 taken
\* against the uncentered sample; every MSE[i] is non-negative.
C4_ReconstructionAndMse ==
    InTestLoop =>
        \A j \in 1..Len(results) : \A i \in 1..Len(numbers) :
            /\ results[j].reconstructions[i]
                   = ExpectedReconstruction(Sample(i), models[j])
            /\ results[j].mse[i] = ExpectedMse(Sample(i), models[j])
            /\ results[j].mse[i][1] >= 0
            /\ results[j].mse[i][2] > 0

C4_Witness ==
    /\ pc = "done" /\ outcome = "returned"
    /\ \E j \in 1..Len(results) : \E i \in 1..Len(numbers) :
          /\ \E q \in 1..Len(models[j].mean) : models[j].mean[q] # 0
          /\ results[j].mse[i][1] > 0
          /\ Sample(i) # Zeros(Len(Sample(i)))
          /\ results[j].reconstructions[i] # models[j].mean

\* C9: one pair per model in list order; a loop iteration changes neither
\* the test matrix nor the models, so the pair of a model depends on that
\* model and the samples only.
C9_OnePairPerModelNoAliasing ==
    /\ [](InTestLoop =>
            /\ pc = "done" => Len(results) = Len(models)
            /\ Len(results) <= Len(models)
            /\ \A j \in 1..Len(results) :
                  /\ Len(results[j].reconstructions) = Len(numbers)
                  /\ Len(results[j].mse) = Len(numbers)
                  /\ \A i \in 1..Len(numbers) :
                        /\ results[j].reconstructions[i]
                               = ExpectedReconstruction(Sample(i), models[j])
                        /\ results[j].mse[i]
                               = ExpectedMse(Sample(i), models[j]))
    /\ [][pc = "test_loop" => X' = X /\ models' = models]_vars

C9_Witness ==
    /\ pc = "done" /\ outcome = "returned"
    /\ Len(results) = 2 /\ Len(numbers) = 2
    /\ models[1].mean # models[2].mean
    /\ models[1].mean # Zeros(Len(models[1].mean))
    /\ results[1] # results[2]
    /\ X # SubtractRow(X, models[1].mean)

\* V is square with orthonormal columns
FullRankOrthonormal(m) ==
    /\ NumComponents(m) = Len(m.eigenvectors)
    /\ \A a, b \in 1..NumComponents(m) :
          SumSeq([q \in 1..Len(m.eigenvectors) |->
                     m.eigenvectors[q][a] * m.eigenvectors[q][b]])
              = IF a = b THEN 1 ELSE 0

\* C10: with k = P orthonormal columns, centering, projecting and
\* reconstructing a sample returns the sample, and its MSE is zero.
C10_FullRankRoundTrip ==
    InTestLoop =>
        \A j \in 1..Len(results) :
            FullRankOrthonormal(models[j]) =>
                \A i \in 1..Len(numbers) :
                    /\ results[j].reconstructions[i] = Sample(i)
                    /\ results[j].mse[i][1] = 0

C10_Witness ==
    /\ pc = "done" /\ outcome = "returned"
    /\ \E j \in 1..Len(results) : \E i \in 1..Len(numbers) :
          /\ FullRankOrthonormal(models[j])
          /\ models[j].eigenvectors[1][1] = 0
          /\ models[j].mean # Zeros(Len(models[j].mean))
          /\ Sample(i) # Zeros(Len(Sample(i)))
          /\ results[j].reconstructions[i] = Sample(i)

-----------------------------------------------------------------------------
(* main: the accuracy count over the MSE vectors of the two test calls *)

MaxMse == 1            \* MSE values are 0..MaxMse

ArnoldTestCount == 2   \* numbers=[7, 8]
BarackTestCount == 4   \* numbers=[7, 8, 9, 10]

InitMain ==
    /\ pc = "count_arnold"
    /\ mse_arnold \in [1..ModelCount -> [1..ArnoldTestCount -> 0..MaxMse]]
    /\ mse_barack \in [1..ModelCount -> [1..BarackTestCount -> 0..MaxMse]]
    /\ correct = 0
    /\ total = 0
    /\ outcome = "none"
    /\ images = [n \in Ids |-> NoImage]
    /\ roi_size = <<50, 50>>
    /\ numbers = <<>>
    /\ X = <<>>
    /\ IdlePca /\ IdleTest /\ IdleDetect

\* for i in range(len(results_arnold[0][1])): ...
CountArnold ==
    /\ pc = "count_arnold"
    /\ total < Len(mse_arnold[1])
    /\ LET i == total + 1
       IN  correct' = IF mse_arnold[1][i] < mse_arnold[2][i]
                      THEN correct + 1 ELSE correct
    /\ total' = total + 1
    /\ UNCHANGED <<pc, images, roi_size, numbers, X, outcome, eig_out, k_arg,
                   model, models, results, mse_arnold, mse_barack,
                   detections, saved>>

ArnoldLoopEnd ==
    /\ pc = "count_arnold"
    /\ total = Len(mse_arnold[1])
    /\ pc' = "count_barack"
    /\ UNCHANGED <<images, roi_size, numbers, X, outcome, eig_out, k_arg,
                   model, models, results, mse_arnold, mse_barack, correct,
                   total, detections, saved>>

\* for i in range(len(results_barack[0][1])): ...
CountBarack ==
    /\ pc = "count_barack"
    /\ total - Len(mse_arnold[1]) < Len(mse_barack[1])
    /\ LET i == total - Len(mse_arnold[1]) + 1
       IN  correct' = IF mse_barack[1][i] > mse_barack[2][i]
                      THEN correct + 1 ELSE correct
    /\ total' = total + 1
    /\ UNCHANGED <<pc, images, roi_size, numbers, X, outcome, eig_out, k_arg,
                   model, models, results, mse_arnold, mse_barack,
                   detections, saved>>

\* print(f'{correct} out of {total} images correctly identified.')
Report ==
    /\ pc = "count_barack"
    /\ total - Len(mse_arnold[1]) = Len(mse_barack[1])
    /\ pc' = "done"
    /\ outcome' = "returned"
    /\ UNCHANGED <<images, roi_size, numbers, X, eig_out, k_arg, model, models,
                   results, mse_arnold, mse_barack, correct, total,
                   detections, saved>>

NextMain == CountArnold \/ ArnoldLoopEnd \/ CountBarack \/ Report

SpecMain == InitMain /\ [][NextMain]_vars

\* argmin over the model list [arnold, barack], ties to the lowest index
Assigned(mse, i) == IF mse[1][i] <= mse[2][i] THEN 1 ELSE 2

\* C5: the reported count is the number of samples whose argmin model (ties
\* to the lowest list index) is the model of their subject, and the reported
\* total is the number of test samples, also for equal MSE values.
C5_AccuracyIsArgminCount ==
    pc = "done" =>
        /\ correct
              = Cardinality({i \in 1..ArnoldTestCount :
                                 Assigned(mse_arnold, i) = 1})
                + Cardinality({i \in 1..BarackTestCount :
                                   Assigned(mse_barack, i) = 2})
        /\ total = ArnoldTestCount + BarackTestCount

-----------------------------------------------------------------------------
(* detect_and_save_faces and visualize_roi_on_images *)

MaxImages == 3     \* source images in the folder
MaxBoxes == 2      \* boxes the detector returns for one image

\* (x, y, width, height)
Boxes == {<<0, 0, 2, 2>>, <<1, 1, 3, 3>>}

InitDetect ==
    /\ pc \in {"detect_and_save_faces", "visualize_roi_on_images"}
    /\ detections \in SeqsUpTo(SeqsUpTo(Boxes, MaxBoxes), MaxImages)
    /\ saved = <<>>
    /\ outcome = "none"
    /\ images = [n \in Ids |-> NoImage]
    /\ roi_size = <<50, 50>>
    /\ numbers = <<>>
    /\ X = <<>>
    /\ IdlePca /\ IdleTest /\ IdleMain

\* one iteration of either loop: face = faces[0]; ...; cv2.imwrite(...)
UseFirstBox ==
    /\ pc \in {"detect_and_save_faces", "visualize_roi_on_images"}
    /\ Len(saved) < Len(detections)
    /\ LET i == Len(saved) + 1
       IN  /\ detections[i] # <<>>
           /\ saved' = Append(saved, [image |-> i, box |-> detections[i][1]])
    /\ UNCHANGED <<pc, images, roi_size, numbers, X, outcome, eig_out, k_arg,
                   model, models, results, mse_arnold, mse_barack, correct,
                   total, detections>>

\* faces[0] on an empty detection result
IndexEmptyDetection ==
    /\ pc \in {"detect_and_save_faces", "visualize_roi_on_images"}
    /\ Len(saved) < Len(detections)
    /\ detections[Len(saved) + 1] = <<>>
    /\ pc' = "done"
    /\ outcome' = "IndexError"
    /\ UNCHANGED <<images, roi_size, numbers, X, eig_out, k_arg, model, models,
                   results, mse_arnold, mse_barack, correct, total,
                   detections, saved>>

DetectLoopEnd ==
    /\ pc \in {"detect_and_save_faces", "visualize_roi_on_images"}
    /\ Len(saved) = Len(detections)
    /\ pc' = "done"
    /\ outcome' = "returned"
    /\ UNCHANGED <<images, roi_size, numbers, X, eig_out, k_arg, model, models,
                   results, mse_arnold, mse_barack, correct, total,
                   detections, saved>>

NextDetect == UseFirstBox \/ IndexEmptyDetection \/ DetectLoopEnd

SpecDetect == InitDetect /\ [][NextDetect]_vars

\* C7: every saved crop comes from the first box of its image, and an image
\* without a box ends the call with NoFaceDetectedError, no crop saved for it.
C7_FirstBoxOrNoFaceDetectedError ==
    /\ \A n \in 1..Len(saved) :
          saved[n].image = n /\ saved[n].box = detections[n][1]
    /\ (pc = "done" /\ \E i \in 1..Len(detections) : detections[i] = <<>>)
          => /\ outcome = "NoFaceDetectedError"
             /\ \A n \in 1..Len(saved) : detections[saved[n].image] # <<>>

====
